---- MODULE Spec2Model ----
(***************************************************************************)
(* Model of src/app.py: a Flask service with a health check (GET /check)   *)
(* and one operation (POST /api/execute) that validates a JSON payload and *)
(* forwards its query to a generative-model collaborator.                  *)
(*                                                                         *)
(* Python values are tagged records [t, v].  A string is a sequence of     *)
(* atoms: text supplied by the caller or by the collaborator is a sequence *)
(* of single characters, and each string literal of the source is a single *)
(* atom, so that f-string concatenation is \o and equality of strings is   *)
(* equality of sequences.  A character above U+00FF, which a TLA+ string   *)
(* cannot hold, is the atom naming its code point ("U+3000").              *)
(***************************************************************************)
EXTENDS Integers, Sequences, FiniteSets

VARIABLES
    API_KEY,      \* os.environ.get("GOOGLE_API_KEY"), read once at import
    initRaised,   \* whether genai.configure / GenerativeModel raised at import
    model,        \* the module-level collaborator handle, or None
    endpoint,     \* the handler that served the latest request
    request,      \* the latest request
    outcome,      \* what the collaborator did when the latest request called it
    resp,         \* what the latest handler produced
    calls,        \* the collaborator invocations made by the latest handler
    log           \* the lines printed by the latest step

vars == <<API_KEY, initRaised, model, endpoint, request, outcome, resp, calls, log>>

(* ------------------------------ bounds -------------------------------- *)

MaxQueryLen == 2

(* --------------------------- Python values ---------------------------- *)

None == [t |-> "None", v |-> 0]
PyBool(b) == [t |-> "bool", v |-> b]
PyInt(n) == [t |-> "int", v |-> n]
PyStr(s) == [t |-> "str", v |-> s]
PyList(l) == [t |-> "list", v |-> l]
PyDict(d) == [t |-> "dict", v |-> d]
GenerativeModel(name) == [t |-> "GenerativeModel", v |-> name]

EmptyDict == [k \in {} |-> None]

\* Python truth value testing, as used by every `not x` of the source.
Truthy(x) ==
    CASE x.t = "None" -> FALSE
      [] x.t = "bool" -> x.v
      [] x.t = "int"  -> x.v # 0
      [] x.t = "str"  -> Len(x.v) > 0
      [] x.t = "list" -> Len(x.v) > 0
      [] x.t = "dict" -> DOMAIN x.v # {}
      [] OTHER        -> TRUE

isinstance_str(x) == x.t = "str"

\* The characters str.strip() removes: those for which str.isspace() is true.
\* U+0009..U+000D, U+001C..U+001F, U+0020, U+0085 and U+00A0 are written as the
\* characters themselves; the characters above U+00FF by their code points.
Whitespace ==
    {"\t", "\n", "", "\f", "\r", "", "", "", "", " ", "", " "}
        \cup {"U+1680", "U+2000", "U+2001", "U+2002", "U+2003", "U+2004", "U+2005",
              "U+2006", "U+2007", "U+2008", "U+2009", "U+200A", "U+2028", "U+2029",
              "U+202F", "U+205F", "U+3000"}

RECURSIVE LStrip(_)
LStrip(s) ==
    IF s = <<>> THEN s
    ELSE IF Head(s) \in Whitespace THEN LStrip(Tail(s)) ELSE s

RECURSIVE RStrip(_)
RStrip(s) ==
    IF s = <<>> THEN s
    ELSE IF s[Len(s)] \in Whitespace THEN RStrip(SubSeq(s, 1, Len(s) - 1)) ELSE s

StripNothing(s) == s

\* str.strip()
Strip(s) == RStrip(LStrip(s))

(* --------------------------- configuration ---------------------------- *)

MODEL_TO_USE == <<"gemini-2.5-flash">>

load_model_ignoring_failure(key, raises) ==
    IF Truthy(key) THEN GenerativeModel(MODEL_TO_USE) ELSE None

\* The module-level try/except that sets `model`.
load_model(key, raises) ==
    IF Truthy(key)
    THEN IF raises THEN None ELSE GenerativeModel(MODEL_TO_USE)
    ELSE None

ConfigErrorText == <<"configuration failed">>

startup_log(key, raises) ==
    (IF ~Truthy(key)
     THEN << <<"FATAL: GOOGLE_API_KEY environment variable not found. The application cannot start.">> >>
     ELSE << >>)
    \o
    (IF Truthy(key) /\ raises
     THEN << <<"ERROR: Failed to configure Google Generative AI: ">> \o ConfigErrorText >>
     ELSE << >>)

(* ------------------------------ requests ------------------------------ *)

Chars == {"a", " "}

\* Caller-supplied strings: every string over Chars up to a length, and a few
\* with the other whitespace characters.
Strings(n) ==
    UNION {[1..k -> Chars] : k \in 0..n}
        \cup {<<"\t">>, <<"\n", " ">>, <<"\t", "a", "\n">>,
              <<"\r">>, <<"\f", "U+3000">>, <<"a", "\r">>, <<" ", "a">>}

\* A JSON object with at most the keys "query" and "other".
Dict(hasQuery, q, hasOther) ==
    [k \in (IF hasQuery THEN {"query"} ELSE {}) \cup (IF hasOther THEN {"other"} ELSE {})
        |-> IF k = "query" THEN q ELSE PyInt(1)]

\* What json.loads can produce below the top level (JSON null is None).
JsonScalarsAndLists ==
    {None, PyBool(TRUE), PyBool(FALSE), PyInt(0), PyInt(1), PyList(<<>>), PyList(<<1>>)}
        \cup {PyStr(s) : s \in Strings(MaxQueryLen)}

QueryValues == JsonScalarsAndLists \cup {PyDict(EmptyDict)}

JsonObjects ==
    {PyDict(Dict(TRUE, q, o)) : q \in QueryValues, o \in BOOLEAN}
        \cup {PyDict(Dict(FALSE, None, o)) : o \in BOOLEAN}

JsonValues == JsonScalarsAndLists \cup JsonObjects

Bodies ==
    {[kind |-> "absent", value |-> None], [kind |-> "unparsable", value |-> None]}
        \cup {[kind |-> "json", value |-> v] : v \in JsonValues}

Requests == [is_json : BOOLEAN, body : Bodies]

NoRequest == [is_json |-> FALSE, body |-> [kind |-> "absent", value |-> None]]

(* --------------------------- the collaborator -------------------------- *)

\* Texts the collaborator returns or raises with.
Texts == {<< >>, <<"a">>, <<" ">>, <<" ", "a", "\n">>}

\* cls = "" : generate_content returned a response whose .text is `text`;
\* otherwise it raised an exception of class cls whose str() is `text`.
Outcomes == [cls : {"", "APIError", "ValueError"}, text : Texts]

NoOutcome == [cls |-> "none", text |-> <<>>]

system_prompt ==
    <<"You are a supportive, non-clinical mental health guide. You are strictly forbidden from providing medical diagnoses, treatment plans, or emergency advice. Your task is to offer empathetic, general guidance, stress reduction techniques, and referrals to reputable resources based on the user's query. Always end with a disclaimer about seeking professional help from a qualified healthcare provider.">>

\* The arguments of model.generate_content.
generate_content_args(query) ==
    [contents |-> query, system_instruction |-> system_prompt, tools |-> <<"google_search">>]

invocations_with_retry(query, out) ==
    IF out.cls = "" THEN << generate_content_args(query) >>
    ELSE << generate_content_args(query), generate_content_args(query) >>

\* The collaborator invocations execute_mental_health makes for one query.
invocations(query, out) == << generate_content_args(query) >>

response_text_stripped(out) == Strip(out.text)

\* response.text
response_text(out) == out.text

\* Result of the call: either a returned value or a raised exception.
execute_mental_health(m, query, out) ==
    IF ~Truthy(m)
    THEN [raised |-> TRUE,
          exc    |-> [cls |-> "Exception",
                      text |-> <<"AI model failed to initialize due to missing or invalid API key.">>],
          value  |-> <<>>,
          calls  |-> <<>>]
    ELSE IF out.cls = ""
    THEN [raised |-> FALSE, exc |-> [cls |-> "", text |-> <<>>],
          value |-> response_text(out), calls |-> invocations(query, out)]
    ELSE [raised |-> TRUE, exc |-> [cls |-> out.cls, text |-> out.text],
          value |-> <<>>, calls |-> invocations(query, out)]

(* ------------------------------ responses ------------------------------ *)

\* What a view function produced: a (body, status) pair turned into a
\* response, or an exception that left the view function (raised # "").
Response(body, status) == [status |-> status, body |-> body, raised |-> ""]

Raised(cls) == [status |-> 0, body |-> EmptyDict, raised |-> cls]

NoResponse == [status |-> 0, body |-> EmptyDict, raised |-> "none"]

\* str(e), as formatted by f'{e}'
Str(e) == e.text

(* ----------------------------- GET /check ------------------------------ *)

check_status_code_always_ok(m) == 200

check_status_code(m) == IF ~Truthy(m) THEN 503 ELSE 200

check_message(m) ==
    IF ~Truthy(m)
    THEN <<"backend is running, but AI model failed to initialize.">>
    ELSE <<"backend is running">>

check(m) ==
    LET status_code == check_status_code(m)
    IN  Response([status  |-> IF status_code = 200 THEN <<"ok">> ELSE <<"error">>,
                  message |-> check_message(m),
                  model   |-> MODEL_TO_USE],
                 status_code)

(* -------------------------- POST /api/execute --------------------------- *)

never_not_initialized(m) == FALSE

\* `if not model:` at the head of execute
not_initialized(m) == ~Truthy(m)

\* request.get_json(silent=True): None unless the mimetype is JSON and the
\* body parses, and then the parsed value.
get_json_silent(req) ==
    IF req.is_json /\ req.body.kind = "json" THEN req.body.value ELSE None

\* data.get('query') on a dict
dict_get(data, key) == IF key \in DOMAIN data.v THEN data.v[key] ELSE None

\* `not query or not isinstance(query, str) or not query.strip()`
query_rejected(query) ==
    \/ ~Truthy(query)
    \/ ~isinstance_str(query)
    \/ ~Truthy(PyStr(Strip(query.v)))

catches_nothing_as_APIError(e) == FALSE

\* `except APIError as e` (tried before `except Exception`)
catches_as_APIError(e) == e.cls = "APIError"

success_body(result) == [success |-> TRUE, result |-> result]

api_error_body(e) ==
    [error |-> <<"AI Service Unavailable or request error: ">> \o Str(e)]

internal_error_body_leaking(e) ==
    [error |-> <<"An unexpected internal server error occurred: ">> \o Str(e)]

internal_error_body(e) ==
    [error |-> <<"An unexpected internal server error occurred.">>]

\* The try/except around execute_mental_health(query).
execute_call(m, query, out) ==
    LET r == execute_mental_health(m, query.v, out)
    IN  IF ~r.raised
        THEN [resp  |-> Response(success_body(r.value), 200),
              calls |-> r.calls,
              log   |-> << >>]
        ELSE IF catches_as_APIError(r.exc)
        THEN [resp  |-> Response(api_error_body(r.exc), 503),
              calls |-> r.calls,
              log   |-> << <<"Gemini API Error: ">> \o Str(r.exc) >>]
        ELSE [resp  |-> Response(internal_error_body(r.exc), 500),
              calls |-> r.calls,
              log   |-> << <<"Internal Server Error: ">> \o Str(r.exc) >>]

\* The whole view function.
execute(m, req, out) ==
    IF not_initialized(m)
    THEN [resp  |-> Response([error |-> <<"AI service not initialized. Check API key configuration.">>], 503),
          calls |-> << >>, log |-> << >>]
    ELSE
    LET data == get_json_silent(req)
    IN  IF ~Truthy(data)
        THEN [resp  |-> Response([error |-> <<"Invalid or missing JSON payload.">>], 400),
              calls |-> << >>, log |-> << >>]
        ELSE IF data.t # "dict"
        THEN \* data.get raises AttributeError outside the try block
             [resp |-> Raised("AttributeError"), calls |-> << >>, log |-> << >>]
        ELSE
        LET query == dict_get(data, "query")
        IN  IF query_rejected(query)
            THEN [resp  |-> Response([error |-> <<"Missing or empty \"query\" field in the request.">>], 400),
                  calls |-> << >>, log |-> << >>]
            ELSE execute_call(m, query, out)

(* --------------------------- the state machine -------------------------- *)

ApiKeys == {None, PyStr(<<>>), PyStr(<<"k">>)}

Init ==
    /\ API_KEY \in ApiKeys
    /\ initRaised \in (IF Truthy(API_KEY) THEN BOOLEAN ELSE {FALSE})
    /\ model = load_model(API_KEY, initRaised)
    /\ endpoint = "none"
    /\ request = NoRequest
    /\ outcome = NoOutcome
    /\ resp = NoResponse
    /\ calls = << >>
    /\ log = startup_log(API_KEY, initRaised)

Check ==
    /\ endpoint' = "check"
    /\ request' = NoRequest
    /\ outcome' = NoOutcome
    /\ resp' = check(model)
    /\ calls' = << >>
    /\ log' = << >>
    /\ UNCHANGED <<API_KEY, initRaised, model>>

Execute(req, out) ==
    LET r == execute(model, req, out)
    IN  /\ endpoint' = "execute"
        /\ request' = req
        /\ outcome' = IF r.calls # << >> THEN out ELSE NoOutcome
        /\ resp' = r.resp
        /\ calls' = r.calls
        /\ log' = r.log
        /\ UNCHANGED <<API_KEY, initRaised, model>>

Next ==
    \/ Check
    \/ \E req \in Requests, out \in Outcomes : Execute(req, out)

Spec == Init /\ [][Next]_vars

(* ------------------- vocabulary of the properties ---------------------- *)

HandlePresent == model.t # "None"

\* The request carries a JSON object.
IsObjectPayload(req) ==
    req.is_json /\ req.body.kind = "json" /\ req.body.value.t = "dict"

Fields(req) == req.body.value.v

MissingQuery(req) == IsObjectPayload(req) /\ "query" \notin DOMAIN Fields(req)

WhitespaceOnlyQuery(req) ==
    /\ IsObjectPayload(req)
    /\ "query" \in DOMAIN Fields(req)
    /\ Fields(req).query.t = "str"
    /\ \A i \in 1..Len(Fields(req).query.v) : Fields(req).query.v[i] \in Whitespace

\* The query is a string with at least one character that is not whitespace
\* (whitespace as str.isspace() has it).
UsableQuery(req) ==
    /\ IsObjectPayload(req)
    /\ "query" \in DOMAIN Fields(req)
    /\ Fields(req).query.t = "str"
    /\ \E i \in 1..Len(Fields(req).query.v) : Fields(req).query.v[i] \notin Whitespace

Contains(s, sub) ==
    \E i \in 0..(Len(s) - Len(sub)) : SubSeq(s, i + 1, i + Len(sub)) = sub

ErrorEnvelope(r) == r.raised = "" /\ DOMAIN r.body = {"error"}

(* ------------------------------- C1 ------------------------------------ *)

\* C1 as stated: every payload that lacks the query field or whose query is
\* only whitespace is answered 400 without invoking the collaborator, whether
\* or not the collaborator handle is present.
C1_AsStated ==
    (endpoint = "execute" /\ (MissingQuery(request) \/ WhitespaceOnlyQuery(request)))
        => (resp.raised = "" /\ resp.status = 400 /\ calls = << >>)

\* C1 amended: for every JSON-object payload that lacks the query field or
\* whose query is only whitespace the collaborator is never invoked, and the
\* handler answers 400 when the handle is present and 503 when it is absent.
C1_RejectedWithoutCall ==
    (endpoint = "execute" /\ (MissingQuery(request) \/ WhitespaceOnlyQuery(request)))
        => /\ resp.raised = ""
           /\ calls = << >>
           /\ resp.status = IF HandlePresent THEN 400 ELSE 503

C1_Witness ==
    /\ endpoint = "execute"
    /\ HandlePresent
    /\ WhitespaceOnlyQuery(request)
    /\ Fields(request).query.v = <<"\f", "U+3000">>
    /\ resp.status = 400
    /\ calls = << >>

(* ------------------------------- C2 ------------------------------------ *)

\* C2: with the handle absent, execute answers 503 with the "not initialized"
\* message whatever the request body, never invokes the collaborator, and
\* the health check reports status "error" with HTTP 503.
C2_DegradedFailsClosed ==
    ~HandlePresent =>
        /\ endpoint = "execute" =>
              /\ resp = Response([error |-> <<"AI service not initialized. Check API key configuration.">>], 503)
              /\ calls = << >>
        /\ endpoint = "check" =>
              /\ resp.raised = ""
              /\ resp.status = 503
              /\ resp.body.status = <<"error">>

C2_Witness ==
    /\ ~HandlePresent
    /\ endpoint = "execute"
    /\ UsableQuery(request)
    /\ resp.status = 503

(* ------------------------------- C3 ------------------------------------ *)

\* C3: handle present, usable query, collaborator returns text T: the answer
\* is 200 with {success: true, result: T}, T unmodified.
C3_SuccessVerbatim ==
    (endpoint = "execute" /\ HandlePresent /\ UsableQuery(request) /\ outcome.cls = "")
        => resp = Response([success |-> TRUE, result |-> outcome.text], 200)

C3_Witness ==
    /\ endpoint = "execute"
    /\ HandlePresent
    /\ UsableQuery(request)
    /\ outcome = [cls |-> "", text |-> <<" ", "a", "\n">>]
    /\ resp.status = 200

(* ------------------------------- C4 ------------------------------------ *)

\* C4: when the collaborator raises APIError the answer is 503, not 500, and
\* its error message contains the error's description.
C4_APIErrorIs503 ==
    (endpoint = "execute" /\ outcome.cls = "APIError")
        => /\ ErrorEnvelope(resp)
           /\ resp.status = 503
           /\ resp.status # 500
           /\ Contains(resp.body.error, outcome.text)

C4_Witness ==
    /\ endpoint = "execute"
    /\ outcome = [cls |-> "APIError", text |-> <<" ", "a", "\n">>]
    /\ resp.status = 503

(* ------------------------------- C5 ------------------------------------ *)

\* C5: when the collaborator raises anything but APIError the answer is 500
\* with the fixed generic message, the same body whatever the exception text;
\* the text is printed to the log only.
C5_GenericInternalError ==
    (endpoint = "execute" /\ outcome.cls \notin {"", "APIError", "none"})
        => /\ resp = Response([error |-> <<"An unexpected internal server error occurred.">>], 500)
           /\ \E i \in 1..Len(log) : Contains(log[i], outcome.text)

C5_Witness ==
    /\ endpoint = "execute"
    /\ outcome = [cls |-> "ValueError", text |-> <<"a">>]
    /\ resp.status = 500

(* ------------------------------- C6 ------------------------------------ *)

\* C6: with the handle present, the body {} is answered 400 with the
\* missing-query message.
C6_EmptyObjectMissingQuery ==
    (/\ endpoint = "execute"
     /\ HandlePresent
     /\ IsObjectPayload(request)
     /\ DOMAIN Fields(request) = {})
        => resp = Response([error |-> <<"Missing or empty \"query\" field in the request.">>], 400)

(* ------------------------------- C7 ------------------------------------ *)

\* C7: with the handle present, every request without a usable query (body
\* absent, unparsable, an object without a usable query, or a JSON value that
\* is not an object) is answered 400 with an {error} envelope, and no
\* exception leaves the handler: every answer is a 200/400/503/500 envelope.
C7_AlwaysAnEnvelope ==
    endpoint = "execute" =>
        /\ resp.raised = ""
        /\ resp.status \in {200, 400, 503, 500}
        /\ (HandlePresent /\ ~UsableQuery(request))
              => (resp.status = 400 /\ ErrorEnvelope(resp))

(* ------------------------------- C8 ------------------------------------ *)

\* C8: the health check answers "ok"/200 exactly when the handle is present
\* and "error"/503 with the degraded message otherwise, always with the
\* configured model identifier; it changes no state and makes no invocation.
C8_HealthCheck ==
    [][endpoint' = "check" =>
          /\ resp'.raised = ""
          /\ (resp'.status = 200) <=> HandlePresent
          /\ (resp'.body.status = <<"ok">>) <=> HandlePresent
          /\ HandlePresent =>
                resp'.body.message = <<"backend is running">>
          /\ ~HandlePresent =>
                /\ resp'.status = 503
                /\ resp'.body.status = <<"error">>
                /\ resp'.body.message = <<"backend is running, but AI model failed to initialize.">>
          /\ resp'.body.model = <<"gemini-2.5-flash">>
          /\ calls' = << >>
          /\ <<API_KEY, initRaised, model>>' = <<API_KEY, initRaised, model>>]_vars

C8_Witness ==
    /\ endpoint = "check"
    /\ HandlePresent
    /\ resp.status = 200
    /\ resp.body.status = <<"ok">>

(* ------------------------------- C9 ------------------------------------ *)

\* C9: the handle is what startup decided (absent when the credential is
\* absent or empty or client construction raised, present otherwise) in every
\* state, whatever requests were served and however they ended.
C9_HandleFixedAtStartup ==
    model = IF API_KEY.t = "None" \/ API_KEY.v = << >> \/ initRaised
            THEN None
            ELSE GenerativeModel(<<"gemini-2.5-flash">>)

C9_Witness ==
    /\ endpoint = "execute"
    /\ outcome.cls = "APIError"
    /\ resp.status = 503
    /\ HandlePresent

(* ------------------------------- C10 ----------------------------------- *)

\* C10: an execute request invokes the collaborator exactly once when the
\* handle is present and the query is usable and not at all otherwise; the
\* invocation carries the caller's query as sent and the fixed system
\* instruction, and the request ends with one response whatever the outcome.
C10_AtMostOneInvocation ==
    endpoint = "execute" =>
        /\ Len(calls) = IF HandlePresent /\ UsableQuery(request) THEN 1 ELSE 0
        /\ \A i \in 1..Len(calls) :
              /\ calls[i].contents = Fields(request).query.v
              /\ calls[i].system_instruction = system_prompt
        /\ Len(calls) = 1 =>
              /\ outcome \in Outcomes
              /\ resp.raised = ""
              /\ resp.status \in {200, 503, 500}

C10_Witness ==
    /\ endpoint = "execute"
    /\ Len(calls) = 1
    /\ calls[1].contents = <<" ", "a">>
    /\ outcome.cls = "APIError"
    /\ resp.status = 503

====
